---- MODULE Spec2Model ----
(***************************************************************************)
(* wlg - workload mix generator (src/wlg.c).                               *)
(*                                                                         *)
(* The process is modelled as the main thread (the orchestrator, `main`)   *)
(* plus one thread per created worker (`worker`).  Threads interleave at   *)
(* every access to shared state: the start mutex and condition variable,   *)
(* the pid field of a worker's wdata slot, the monotonic clock and the     *)
(* state of the C library's random-number generator.                       *)
(***************************************************************************)
EXTENDS Integers, Sequences, FiniteSets, TLC

----------------------------------------------------------------------------
(* Bounds of the model *)

\* largest worker count written on the command line for one kind
MaxCount == 2
\* largest number of threads the enumerated command lines may ask for
MaxWorkers == 2
\* clock steps followed when no worker is waiting for a deadline
MaxTime == 1
\* RAND_MAX of the modelled generator (the real one is 2^31 - 1)
RAND_MAX == 2
\* the clock is sampled every TickStep units of TickNs (a coarse scheduler:
\* 5 s between two samples that differ)
TickStep == 10

----------------------------------------------------------------------------
(* Program constants *)

WORKER_BATCH == 0
WORKER_INTERACTIVE == 1
WORKER_PERIODC == 2
WORKER_YIELD == 3

US_TO_NS == 1000
S_TO_MS == 1000
MS_TO_NS == 1000000
S_TO_US == 1000000
S_TO_NS == 1000000000

\* sizeof(pthread_t) on the LP64 targets the program builds for
SizeofPthreadT == 8
\* static uint8_t conf_td = 5
DefaultTd == 5
\* main is the first thread of the process: its tid; workers get the next ones
MainTid == 100
\* exit statuses as seen by the parent: exit(-1), exit(0), SIGABRT, SIGSEGV
ExitMinus1 == 255
ExitOk == 0
ExitAbort == 134
ExitSegv == 139
\* no exit status yet: the process is running
NotExited == ExitMinus1 + 1
\* unit of the modelled monotonic clock: half a second
TickNs == 500000000

\* largest value of a uint8_t: conf_bw, conf_iw, conf_pw, conf_yw and the
\* locals i and w of main are uint8_t
UINT8_MAX == 255

U8(n) == n % (UINT8_MAX + 1)

----------------------------------------------------------------------------
(* Time management utilities *)

ZeroTs == [tv_sec |-> 0, tv_nsec |-> 0]

\* clock_gettime(CLOCK_MONOTONIC_RAW) when the clock shows c ticks
timespec_now(c) ==
    [tv_sec  |-> c \div (S_TO_NS \div TickNs),
     tv_nsec |-> (c % (S_TO_NS \div TickNs)) * TickNs]

timespec_add_ms(ts, ms0) ==
    LET sec  == ms0 \div S_TO_MS
        ms   == ms0 - sec * S_TO_MS
        nsec == ts.tv_nsec + ms * MS_TO_NS
    IN  [tv_sec  |-> ts.tv_sec + nsec \div S_TO_NS + sec,
         tv_nsec |-> nsec % S_TO_NS]

\* the addition without the carry into the seconds
timespec_add_us_nocarry(ts, us0) ==
    LET sec  == us0 \div S_TO_US
        us   == us0 - sec * S_TO_US
        nsec == ts.tv_nsec + us * US_TO_NS
    IN  [tv_sec  |-> ts.tv_sec + sec,
         tv_nsec |-> nsec % S_TO_NS]

timespec_add_us(ts, us0) ==
    LET sec  == us0 \div S_TO_US
        us   == us0 - sec * S_TO_US
        nsec == ts.tv_nsec + us * US_TO_NS
    IN  [tv_sec  |-> ts.tv_sec + nsec \div S_TO_NS + sec,
         tv_nsec |-> nsec % S_TO_NS]

timespec_add_ns(ts, ns0) ==
    LET sec  == ns0 \div S_TO_NS
        ns   == ns0 - sec * S_TO_NS
        nsec == ts.tv_nsec + ns
    IN  [tv_sec  |-> ts.tv_sec + nsec \div S_TO_NS + sec,
         tv_nsec |-> nsec % S_TO_NS]

\* the comparison with > in the place of >= on the nanoseconds
timespec_older_strict(a, b) ==
    IF a.tv_sec > b.tv_sec THEN TRUE
    ELSE IF a.tv_sec < b.tv_sec THEN FALSE
    ELSE a.tv_nsec > b.tv_nsec

\* not null if a is older than b, i.e. a >= b
timespec_older(a, b) ==
    IF a.tv_sec > b.tv_sec THEN TRUE
    ELSE IF a.tv_sec < b.tv_sec THEN FALSE
    ELSE a.tv_nsec >= b.tv_nsec

\* the subtraction without the borrow
timespec_subtract_noborrow(a, b) ==
    [tv_sec |-> a.tv_sec - b.tv_sec, tv_nsec |-> a.tv_nsec - b.tv_nsec]

\* computes a - b
timespec_subtract(a, b) ==
    LET nsec == a.tv_nsec - b.tv_nsec
    IN  IF nsec < 0
        THEN [tv_sec |-> (a.tv_sec - 1) - b.tv_sec, tv_nsec |-> nsec + S_TO_NS]
        ELSE [tv_sec |-> a.tv_sec - b.tv_sec, tv_nsec |-> nsec]

----------------------------------------------------------------------------
(* Random numbers: random()/srandom() keep ONE state for the whole process *)

\* srandom(seed): the generator state after seeding
Srandom(seed) == seed % (RAND_MAX + 1)

\* random(): the next state of the generator; the state is the value returned
RandomNext(s) == (s + 1) % (RAND_MAX + 1)

\* the scaling by a maximum one less than that of the generator
normal_random_short(max_value, r) == (max_value * r) \div (RAND_MAX - 1)

\* the value normal_random(max_value) computes from the number random() gave
\* (in double: the product is rounded, and the value returned is this one or,
\* for some arguments, one less)
normal_random(max_value, r) == (max_value * r) \div RAND_MAX

----------------------------------------------------------------------------
(* The command line *)

\* one comma separated field of an option argument: a number or other text
Tok(n) == [ok |-> TRUE, val |-> n]
BadTok == [ok |-> FALSE, val |-> 0]

\* char * that is NULL or points at the remaining fields of an argument
NullStr == [null |-> TRUE, toks |-> <<>>]
Str(toks) == [null |-> FALSE, toks |-> toks]

\* strsep(&s, ","): the field returned (null: strsep returned NULL) ...
strsep_tok(s) ==
    IF s.null THEN [null |-> TRUE, tok |-> BadTok]
    ELSE [null |-> FALSE, tok |-> Head(s.toks)]

\* ... and what is left in s
strsep_rest(s) ==
    IF s.null THEN NullStr
    ELSE IF Len(s.toks) = 1 THEN NullStr
    ELSE Str(Tail(s.toks))

----------------------------------------------------------------------------
(* The command lines tried.  An option is its letter and the fields of its  *)
(* argument; "v" is --verbose, for which getopt_long stores the flag and    *)
(* returns 0.                                                               *)

\* longest command line, in options
MaxOpts == 2
\* most options with parameters (-i, -p, -y) on one command line
MaxParamOpts == 1

Opt(o, arg) == [opt |-> o, arg |-> arg]

\* parameter values, in microseconds: one step of the clock and two
Half == TickStep * (TickNs \div US_TO_NS)
Full == 2 * Half

Counts == {Tok(n) : n \in 1..MaxCount}

\* the fields "N,a,b,a,b,...": a count and n pairs
RECURSIVE Pairs(_, _, _)
Pairs(n, a, b) == IF n = 0 THEN <<>> ELSE <<Tok(a), Tok(b)>> \o Pairs(n - 1, a, b)

Options ==
    {Opt("b", <<c>>) : c \in Counts \cup {BadTok}}
    \cup {Opt("d", <<Tok(1)>>), Opt("d", <<BadTok>>), Opt("h", <<>>), Opt("v", <<>>)}
    \cup {Opt("i", <<c>> \o Pairs(c.val, Half, Half)) : c \in Counts}
    \cup {Opt("i", <<c>> \o Pairs(1, Half, Half)) : c \in Counts}
    \cup {Opt("i", <<Tok(1)>>), Opt("i", <<Tok(1), BadTok, Tok(Half)>>)}
    \cup {Opt("p", <<Tok(1), Tok(Full), Tok(d)>>) : d \in {100, 101}}
    \cup {Opt("y", <<Tok(1), Tok(x[1]), Tok(x[2])>>) :
            x \in {<<Full, Half>>, <<Half, Half>>, <<Half, Full>>}}

\* threads a command line asks for when every option is taken at its word
RECURSIVE Asked(_)
Asked(args) ==
    IF args = <<>> THEN 0
    ELSE (IF Head(args).opt \in {"b", "i", "p", "y"} /\ Head(args).arg[1].ok
          THEN Head(args).arg[1].val ELSE 0) + Asked(Tail(args))

\* options of a command line that carry parameters
WithParams(args) == {k \in DOMAIN args : args[k].opt \in {"i", "p", "y"}}

CmdLines ==
    {a \in UNION {[1..n -> Options] : n \in 0..MaxOpts} :
        Asked(a) <= MaxWorkers /\ Cardinality(WithParams(a)) <= MaxParamOpts}

----------------------------------------------------------------------------
(* parse_cmdline *)

InitConf ==
    [bw |-> 0, iw |-> 0, pw |-> 0, yw |-> 0, td |-> DefaultTd, vr |-> 0,
     iparams |-> NullStr, pparams |-> NullStr, yparams |-> NullStr]

\* sscanf(optarg, "%hhu", &x) < 1
ScanFails(arg) == ~arg[1].ok

\* the options are taken in order; the result is the configuration, what was
\* written to stderr, and how the function ended:
\* "return", "exit_error" (usage, exit(-1)), "help" (exit(0)), "abort"
RECURSIVE parse_cmdline(_, _, _)
parse_cmdline(args, c, err) ==
    IF args = <<>> THEN [conf |-> c, err |-> err, out |-> "return"]
    ELSE LET o == Head(args).opt
             a == Head(args).arg
         IN CASE o = "b" ->
                   IF ScanFails(a)
                   THEN [conf |-> c, err |-> err \cup {"Wrong BATCH workload specification"},
                         out |-> "exit_error"]
                   ELSE parse_cmdline(Tail(args), [c EXCEPT !.bw = U8(a[1].val)], err)
              [] o = "d" ->
                   IF ScanFails(a)
                   THEN parse_cmdline(Tail(args), c,
                                      err \cup {"Wrong workload duration specification"})
                   ELSE parse_cmdline(Tail(args), [c EXCEPT !.td = U8(a[1].val)], err)
              [] o = "h" -> [conf |-> c, err |-> err, out |-> "help"]
              [] o = "i" ->
                   IF ScanFails(a)
                   THEN [conf |-> c,
                         err |-> err \cup {"Wrong INTERACTIVE workload specification"},
                         out |-> "exit_error"]
                   ELSE parse_cmdline(Tail(args),
                            [c EXCEPT !.iw = U8(a[1].val), !.iparams = Str(a)], err)
              [] o = "p" ->
                   IF ScanFails(a)
                   THEN [conf |-> c, err |-> err \cup {"Wrong PERIOD workload specification"},
                         out |-> "exit_error"]
                   ELSE parse_cmdline(Tail(args),
                            [c EXCEPT !.pw = U8(a[1].val), !.pparams = Str(a)], err)
              [] o = "y" ->
                   IF ScanFails(a)
                   THEN [conf |-> c, err |-> err \cup {"Wrong YIELD workload specification"},
                         out |-> "exit_error"]
                   ELSE parse_cmdline(Tail(args),
                            [c EXCEPT !.yw = U8(a[1].val), !.yparams = Str(a)], err)
              [] OTHER -> [conf |-> [c EXCEPT !.vr = 1], err |-> err, out |-> "abort"]

----------------------------------------------------------------------------
(* State *)

VARIABLES
    argv,           \* the options getopt_long has not returned yet
    stderr,         \* the error messages written so far
    mpc,            \* where main is; an "exit_..." value names the exit taken
    exitcode,       \* exit status of the process, NotExited while it runs
    conf,           \* conf_bw, conf_iw, conf_pw, conf_yw, conf_td, conf_*params
    workers_count,  \* static uint32_t workers_count
    workers_size,   \* bytes malloc gave to `workers`
    workers_data,   \* the wdata slots, by index
    workers,        \* the thread handles stored by main, by index
    i, w, p1, p2,   \* locals of main (p1, p2 = Indeterminate until assigned)
    start_ts,       \* static struct timespec start_ts
    end_ts,         \* end_ts of main, after the subtraction: the time reported
    start_mtx,      \* owner of the mutex: 0 free, MainTid, or a worker's tid
    threads,        \* the threads created, in order of creation
    clk,            \* the monotonic clock, in ticks
    rng,            \* state of the process-wide generator behind random()
    args,           \* a function of the program called on its own: its
    ret             \* arguments, and what it returned

\* the call of a function on its own, outside a run of the process
utilv == <<args, ret>>

vars == <<argv, stderr, mpc, exitcode, conf, workers_count, workers_size,
          workers_data, workers, i, w, p1, p2, start_ts, end_ts, start_mtx,
          threads, clk, rng, utilv>>

\* variables of main alone
mainv == <<argv, stderr, mpc, exitcode, conf, workers_count, workers_size,
           workers, i, w, p1, p2, start_ts, end_ts, utilv>>

\* an uninitialised uint32_t local
Indeterminate == 0 - 1
\* values an uninitialised local may turn out to hold
Garbage == {0, 101}

Running == exitcode = NotExited

\* tid of the n-th thread created
Tid(n) == MainTid + n

NoSlot == [id |-> 0, pid |-> 0, kind |-> WORKER_BATCH, u1 |-> 0, u2 |-> 0]

\* a thread that has just been created, running worker(conf) on slot s;
\* the locals of worker and of the model it runs start at zero and are set
\* before they are read; yields counts the calls of pthread_yield made by the
\* invocation of worker_yield in progress
NewThread(s) ==
    [slot |-> s, pc |-> "pid", end_ts |-> ZeroTs, m_end_ts |-> ZeroTs,
     yield_ts |-> ZeroTs, wake |-> ZeroTs, delay |-> 0, process |-> 0,
     sleep |-> 0, yields |-> 0, drawn |-> FALSE, raw |-> 0, own |-> 0]

\* the state of the process when main is entered with command line argv
InitWith(cmdlines) ==
    /\ argv \in cmdlines
    /\ stderr = {}
    /\ mpc = "start"
    /\ exitcode = NotExited
    /\ conf = InitConf
    /\ workers_count = 0
    /\ workers_size = 0
    /\ workers_data = <<>>
    /\ workers = <<>>
    /\ i = 0 /\ w = 0
    /\ p1 = Indeterminate /\ p2 = Indeterminate
    /\ start_ts = ZeroTs
    /\ end_ts = ZeroTs
    /\ start_mtx = 0
    /\ threads = <<>>
    /\ clk = 0
    /\ rng = Srandom(1)

\* no function is being called on its own
NoCall == [fn |-> "none"]
Idle == args = NoCall /\ ret = NoCall

Init == InitWith(CmdLines) /\ Idle

\* the command lines with `-d 0` as their last option: a test of no duration,
\* in which every worker ends at its first check
ZeroDurationCmdLines == {a \o <<Opt("d", <<Tok(0)>>)>> : a \in CmdLines}

InitZeroDuration == InitWith(ZeroDurationCmdLines) /\ Idle

----------------------------------------------------------------------------
(* main, up to the launch of the workers *)

\* main:634-639  pid = gettid(); clock_gettime(&start_ts)
MainStart ==
    /\ mpc = "start"
    /\ start_ts' = timespec_now(clk)
    /\ mpc' = "parse"
    /\ UNCHANGED <<utilv, argv, stderr, exitcode, conf, workers_count, workers_size,
                   workers_data, workers, i, w, p1, p2, end_ts, start_mtx,
                   threads, clk, rng>>

\* main:641  parse_cmdline(argc, argv)
MainParse ==
    /\ mpc = "parse"
    /\ LET r == parse_cmdline(argv, conf, stderr)
       IN /\ conf' = r.conf
          /\ stderr' = r.err
          /\ mpc' = CASE r.out = "return" -> "alloc"
                      [] r.out = "help" -> "exit_help"
                      [] r.out = "abort" -> "exit_abort"
                      [] OTHER -> "exit_usage"
          /\ exitcode' = CASE r.out = "return" -> NotExited
                           [] r.out = "help" -> ExitOk
                           [] r.out = "abort" -> ExitAbort
                           [] OTHER -> ExitMinus1
    /\ argv' = <<>>
    /\ UNCHANGED <<utilv, workers_count, workers_size, workers_data, workers,
                   i, w, p1, p2, start_ts, end_ts, start_mtx, threads, clk, rng>>

\* main:647-653  allocate the handles and the slots, lock start_mtx
MainAlloc ==
    /\ mpc = "alloc"
    /\ start_mtx = 0
    /\ LET n == conf.bw + conf.iw + conf.pw + conf.yw
       IN /\ workers_count' = n
          /\ workers_size' = n + SizeofPthreadT
          /\ workers_data' = [k \in 1..n |-> NoSlot]
          /\ workers' = [k \in 1..n |-> 0]
    /\ start_mtx' = MainTid
    /\ i' = 0
    /\ mpc' = "batch"
    /\ UNCHANGED <<utilv, argv, stderr, exitcode, conf, w, p1, p2, start_ts, end_ts,
                   threads, clk, rng>>

----------------------------------------------------------------------------
(* main: the launch loops.  Slot and handle k of the C arrays are element   *)
(* k + 1 of the sequences.                                                  *)

\* the bytes of handle k of `workers` lie inside what malloc was asked for
InAllocation(k) == (k + 1) * SizeofPthreadT <= workers_size

\* workers[k] = (the handle of the thread just created).  A store past the
\* end of the allocation is undefined: it lands in memory the process may
\* write and main goes on, or the process is killed
store_handle(k) ==
    /\ threads' = Append(threads, NewThread(k + 1))
    /\ \/ /\ workers' = [workers EXCEPT ![k + 1] = Tid(Len(threads) + 1)]
          /\ i' = U8(i + 1)
          /\ UNCHANGED <<mpc, exitcode, stderr>>
       \/ /\ ~InAllocation(k)
          /\ mpc' = "exit_overflow"
          /\ exitcode' = ExitSegv
          /\ UNCHANGED <<workers, i, stderr>>

\* create_worker without the exit(-1): the failure is reported and main goes
\* on with the next worker
create_worker_noexit(k, ok) ==
    IF ok
    THEN store_handle(k)
    ELSE /\ stderr' = stderr \cup {"pthread_create failed"}
         /\ i' = U8(i + 1)
         /\ UNCHANGED <<threads, workers, mpc, exitcode>>

\* create_worker(workers_data + k): pthread_create succeeds (ok) and the new
\* thread starts in worker(), or fails and the process exits with -1
create_worker(k, ok) ==
    IF ok
    THEN store_handle(k)
    ELSE /\ mpc' = "exit_create"
         /\ exitcode' = ExitMinus1
         /\ stderr' = stderr \cup {"pthread_create failed"}
         /\ UNCHANGED <<threads, workers, i>>

\* the values sscanf(param, "%d", &p) can leave in p: the number read, or
\* what p held before when the field is no number
ScanParam(field, old) ==
    IF field.tok.ok THEN {field.tok.val}
    ELSE IF old = Indeterminate THEN Garbage ELSE {old}

\* the check written with >= : a duty cycle of 100 is refused
duty_cycle_rejected_ge(a, b) == b >= 100

\* main:699  if (p2 > 100)
duty_cycle_rejected(a, b) == b > 100
\* main:727  if (p2 > p1)
yield_rejected(a, b) == b > a
\* the check a launch loop makes of the pair it read: the INTERACTIVE loop
\* makes none
rejected(kind, a, b) ==
    CASE kind = WORKER_PERIODC -> duty_cycle_rejected(a, b)
      [] kind = WORKER_YIELD -> yield_rejected(a, b)
      [] OTHER -> FALSE

\* main:656-664  one iteration of the BATCH loop
LaunchBatch ==
    /\ mpc = "batch"
    /\ i < conf.bw
    /\ workers_data' = [workers_data EXCEPT ![w + i + 1] =
            [@ EXCEPT !.id = U8(i + 1), !.pid = 0, !.kind = WORKER_BATCH]]
    /\ \E ok \in BOOLEAN : create_worker(w + i, ok)
    /\ UNCHANGED <<utilv, argv, conf, workers_count, workers_size, w, p1, p2,
                   start_ts, end_ts, start_mtx, clk, rng>>

\* one iteration of a loop that reads two parameters: both strsep/sscanf
\* pairs, the check of the pair, the stores into the slot, create_worker.
\* sscanf(NULL, ...) when the fields have run out ends the process (SIGSEGV).
LaunchWithParams(pc, kind, count, field, exitpc, msg) ==
    /\ mpc = pc
    /\ i < count
    /\ LET f1 == strsep_tok(conf[field])
           s1 == strsep_rest(conf[field])
           f2 == strsep_tok(s1)
           s2 == strsep_rest(s1)
       IN IF f1.null \/ f2.null
          THEN /\ mpc' = "exit_segv"
               /\ exitcode' = ExitSegv
               /\ conf' = [conf EXCEPT ![field] = NullStr]
               /\ UNCHANGED <<workers_data, workers, threads, i, p1, p2, stderr>>
          ELSE \E v1 \in ScanParam(f1, p1), v2 \in ScanParam(f2, p2) :
               /\ p1' = v1
               /\ p2' = v2
               /\ conf' = [conf EXCEPT ![field] = s2]
               /\ IF rejected(kind, v1, v2)
                  THEN /\ mpc' = exitpc
                       /\ exitcode' = ExitMinus1
                       /\ stderr' = stderr \cup {msg}
                       /\ workers_data' = [workers_data EXCEPT ![w + i + 1] =
                            [@ EXCEPT !.id = U8(i + 1), !.pid = 0, !.kind = kind]]
                       /\ UNCHANGED <<workers, threads, i>>
                  ELSE /\ workers_data' = [workers_data EXCEPT ![w + i + 1] =
                            [id |-> U8(i + 1), pid |-> 0, kind |-> kind,
                             u1 |-> v1, u2 |-> v2]]
                       /\ \E ok \in BOOLEAN : create_worker(w + i, ok)
    /\ UNCHANGED <<utilv, argv, workers_count, workers_size, w, start_ts, end_ts,
                   start_mtx, clk, rng>>

\* main:669-685
LaunchInteractive ==
    LaunchWithParams("inter", WORKER_INTERACTIVE, conf.iw, "iparams",
                     "exit_none", "")

\* main:690-713
LaunchPeriodic ==
    LaunchWithParams("period", WORKER_PERIODC, conf.pw, "pparams",
                     "exit_duty",
                     "Wrong PERIOD workload specification (duty-cycle > 100)")

\* main:718-737
LaunchYield ==
    LaunchWithParams("yield", WORKER_YIELD, conf.yw, "yparams",
                     "exit_yield",
                     "Wrong YIELD workload specification (period > yield_interval)")

\* the end of a launch loop: w += i, then the strsep that skips the count
\* field of the next kind's argument
LoopEnd(pc, count, nextpc, field) ==
    /\ mpc = pc
    /\ ~(i < count)
    /\ w' = U8(w + i)
    /\ i' = 0
    /\ conf' = [conf EXCEPT ![field] = strsep_rest(conf[field])]
    /\ mpc' = nextpc
    /\ UNCHANGED <<utilv, argv, stderr, exitcode, workers_count, workers_size,
                   workers_data, workers, p1, p2, start_ts, end_ts, start_mtx,
                   threads, clk, rng>>

\* main:665-668
EndBatch == LoopEnd("batch", conf.bw, "inter", "iparams")
\* main:686-689
EndInteractive == LoopEnd("inter", conf.iw, "period", "pparams")
\* main:714-717
EndPeriodic == LoopEnd("period", conf.pw, "yield", "yparams")

\* main:738-742  w += i; pthread_mutex_unlock(&start_mtx); usleep(1000 * w)
EndYield ==
    /\ mpc = "yield"
    /\ ~(i < conf.yw)
    /\ w' = U8(w + i)
    /\ i' = 0
    /\ start_mtx' = 0
    /\ mpc' = "poll"
    /\ UNCHANGED <<utilv, argv, stderr, exitcode, conf, workers_count, workers_size,
                   workers_data, workers, p1, p2, start_ts, end_ts, threads,
                   clk, rng>>

----------------------------------------------------------------------------
(* main: readiness polling, release, join, report *)

Now == timespec_now(clk)

\* main:744-748  one pass of the polling loop that finds slot i ready; a pass
\* that finds pid still 0 sleeps and changes nothing
MainPoll ==
    /\ mpc = "poll"
    /\ i < w
    /\ workers_data[i + 1].pid # 0
    /\ i' = U8(i + 1)
    /\ UNCHANGED <<utilv, argv, stderr, mpc, exitcode, conf, workers_count,
                   workers_size, workers_data, workers, w, p1, p2, start_ts,
                   end_ts, start_mtx, threads, clk, rng>>

\* main:750  the polling loop is over; pthread_mutex_lock(&start_mtx)
MainLock ==
    /\ mpc = "poll"
    /\ ~(i < w)
    /\ start_mtx = 0
    /\ start_mtx' = MainTid
    /\ mpc' = "broadcast"
    /\ UNCHANGED <<utilv, argv, stderr, exitcode, conf, workers_count, workers_size,
                   workers_data, workers, i, w, p1, p2, start_ts, end_ts,
                   threads, clk, rng>>

\* pthread_cond_broadcast(&start_cv): the threads blocked in pthread_cond_wait
\* at this moment are woken, nobody else
cond_broadcast(ths) ==
    [t \in DOMAIN ths |->
        IF ths[t].pc = "wait" THEN [ths[t] EXCEPT !.pc = "woken"] ELSE ths[t]]

\* main:752
MainBroadcast ==
    /\ mpc = "broadcast"
    /\ threads' = cond_broadcast(threads)
    /\ mpc' = "stamp"
    /\ UNCHANGED <<utilv, argv, stderr, exitcode, conf, workers_count, workers_size,
                   workers_data, workers, i, w, p1, p2, start_ts, end_ts,
                   start_mtx, clk, rng>>

\* main:753  clock_gettime(&start_ts)
MainStamp ==
    /\ mpc = "stamp"
    /\ start_ts' = Now
    /\ mpc' = "unlock"
    /\ UNCHANGED <<utilv, argv, stderr, exitcode, conf, workers_count, workers_size,
                   workers_data, workers, i, w, p1, p2, end_ts, start_mtx,
                   threads, clk, rng>>

\* main:754  pthread_mutex_unlock(&start_mtx)
MainUnlock ==
    /\ mpc = "unlock"
    /\ start_mtx' = 0
    /\ i' = 0
    /\ mpc' = "join"
    /\ UNCHANGED <<utilv, argv, stderr, exitcode, conf, workers_count, workers_size,
                   workers_data, workers, w, p1, p2, start_ts, end_ts, threads,
                   clk, rng>>

\* the thread a handle stored by create_worker names
ThreadOf(handle) == handle - MainTid

\* main:757-760  pthread_join(workers[i]) returns once that thread has ended
MainJoin ==
    /\ mpc = "join"
    /\ i < w
    /\ threads[ThreadOf(workers[i + 1])].pc = "done"
    /\ i' = U8(i + 1)
    /\ UNCHANGED <<utilv, argv, stderr, mpc, exitcode, conf, workers_count,
                   workers_size, workers_data, workers, w, p1, p2, start_ts,
                   end_ts, start_mtx, threads, clk, rng>>

\* main:762-767  the elapsed time is computed and printed; return 0
MainReport ==
    /\ mpc = "join"
    /\ ~(i < w)
    /\ end_ts' = timespec_subtract(Now, start_ts)
    /\ mpc' = "done"
    /\ exitcode' = ExitOk
    /\ UNCHANGED <<utilv, argv, stderr, conf, workers_count, workers_size,
                   workers_data, workers, i, w, p1, p2, start_ts, start_mtx,
                   threads, clk, rng>>

----------------------------------------------------------------------------
(* worker: start-up and sync_start *)

Slot(t) == workers_data[threads[t].slot]

\* a step of thread t is a step of the running process whose thread t stands
\* at pc; main's variables stay as they are
At(t, pc) == Running /\ threads[t].pc = pc

\* worker:435  wdata->pid = gettid()
WorkerPid ==
    \E t \in DOMAIN threads :
        /\ At(t, "pid")
        /\ workers_data' = [workers_data EXCEPT ![threads[t].slot].pid = Tid(t)]
        /\ threads' = [threads EXCEPT ![t].pc = "seed"]
        /\ UNCHANGED <<mainv, start_mtx, clk, rng>>

\* worker:436-442  srandom(wdata->pid), then the thread names itself
WorkerSeed ==
    \E t \in DOMAIN threads :
        /\ At(t, "seed")
        /\ rng' = Srandom(Slot(t).pid)
        /\ threads' = [threads EXCEPT ![t].pc = "lock", ![t].own = Srandom(Tid(t))]
        /\ UNCHANGED <<mainv, workers_data, start_mtx, clk>>

\* sync_start:273-274  pthread_mutex_lock, then pthread_cond_wait gives the
\* mutex back and blocks the thread, in one step of the mutex
WorkerWait ==
    \E t \in DOMAIN threads :
        /\ At(t, "lock")
        /\ start_mtx = 0
        /\ threads' = [threads EXCEPT ![t].pc = "wait"]
        /\ UNCHANGED <<mainv, workers_data, start_mtx, clk, rng>>

\* sync_start:274  pthread_cond_wait may wake up with no broadcast or signal
\* (POSIX: spurious wakeups may occur); the call is not in a loop
SpuriousWakeup ==
    \E t \in DOMAIN threads :
        /\ At(t, "wait")
        /\ threads' = [threads EXCEPT ![t].pc = "woken"]
        /\ UNCHANGED <<mainv, workers_data, start_mtx, clk, rng>>

\* sync_start:274-275  the woken thread gets the mutex back, pthread_cond_wait
\* returns, pthread_mutex_unlock
WorkerResume ==
    \E t \in DOMAIN threads :
        /\ At(t, "woken")
        /\ start_mtx = 0
        /\ threads' = [threads EXCEPT ![t].pc = "end"]
        /\ UNCHANGED <<mainv, workers_data, start_mtx, clk, rng>>

\* worker:447-448  clock_gettime(&end_ts); end_ts.tv_sec += conf_td
worker_end_ts(now, td) == [now EXCEPT !.tv_sec = @ + td]

WorkerEnd ==
    \E t \in DOMAIN threads :
        /\ At(t, "end")
        /\ threads' = [threads EXCEPT ![t].pc = "check",
                                      ![t].end_ts = worker_end_ts(Now, conf.td)]
        /\ UNCHANGED <<mainv, workers_data, start_mtx, clk, rng>>

\* the first state of the model of a kind
ModelEntry(kind) ==
    CASE kind = WORKER_BATCH -> "batch"
      [] kind = WORKER_INTERACTIVE -> "i_delay"
      [] kind = WORKER_PERIODC -> "p_start"
      [] OTHER -> "y_start"

\* worker:453-471  check end of test, else do workload
WorkerCheck ==
    \E t \in DOMAIN threads :
        /\ At(t, "check")
        /\ threads' = [threads EXCEPT ![t].pc =
                IF timespec_older(Now, threads[t].end_ts) THEN "done"
                ELSE ModelEntry(Slot(t).kind)]
        /\ UNCHANGED <<mainv, workers_data, start_mtx, clk, rng>>

----------------------------------------------------------------------------
(* The worker models.  A poll-spin loop (clock sample, busy_loop, repeat)   *)
(* changes nothing until a sample reaches the deadline, so it is one step   *)
(* that waits for the clock.  The locals of a model are dead once it        *)
(* returns: they go back to zero.                                           *)

Return(th) ==
    [th EXCEPT !.pc = "check", !.m_end_ts = ZeroTs, !.yield_ts = ZeroTs,
               !.wake = ZeroTs, !.delay = 0, !.process = 0, !.sleep = 0,
               !.yields = 0]

\* worker_batch:298-303  one busy_loop
WorkerBatch ==
    \E t \in DOMAIN threads :
        /\ At(t, "batch")
        /\ threads' = [threads EXCEPT ![t] = Return(@)]
        /\ UNCHANGED <<mainv, workers_data, start_mtx, clk, rng>>

\* worker_interactive:316-318  delay = normal_random(interval_max); usleep(delay)
InteractiveDelay ==
    \E t \in DOMAIN threads :
        /\ At(t, "i_delay")
        /\ LET r == RandomNext(rng)
               d == normal_random(Slot(t).u1, r)
           IN /\ rng' = r
              /\ threads' = [threads EXCEPT
                    ![t].pc = "i_sleep", ![t].delay = d,
                    ![t].wake = timespec_add_us(Now, d),
                    ![t].own = RandomNext(@), ![t].raw = r, ![t].drawn = TRUE]
        /\ UNCHANGED <<mainv, workers_data, start_mtx, clk>>

\* worker_interactive:321-326  after the sleep: process = normal_random(
\* duration_max); end_ts = now + process
InteractiveProcess ==
    \E t \in DOMAIN threads :
        /\ At(t, "i_sleep")
        /\ timespec_older(Now, threads[t].wake)
        /\ LET r == RandomNext(rng)
               d == normal_random(Slot(t).u2, r)
           IN /\ rng' = r
              /\ threads' = [threads EXCEPT
                    ![t].pc = "spin", ![t].process = d,
                    ![t].m_end_ts = timespec_add_us(Now, d),
                    ![t].own = RandomNext(@), ![t].raw = r]
        /\ UNCHANGED <<mainv, workers_data, start_mtx, clk>>

\* a poll-spin loop that also ends when the end of the test has come
SpinEndAtDeadline ==
    \E t \in DOMAIN threads :
        /\ At(t, "spin")
        /\ \/ timespec_older(Now, threads[t].m_end_ts)
           \/ timespec_older(Now, threads[t].end_ts)
        /\ threads' = [threads EXCEPT ![t] = Return(@)]
        /\ UNCHANGED <<mainv, workers_data, start_mtx, clk, rng>>

\* worker_interactive:331-338, worker_periodic:365-372  the poll-spin loop
\* ends at the first sample at or after end_ts, and the model returns
SpinEnd ==
    \E t \in DOMAIN threads :
        /\ At(t, "spin")
        /\ timespec_older(Now, threads[t].m_end_ts)
        /\ threads' = [threads EXCEPT ![t] = Return(@)]
        /\ UNCHANGED <<mainv, workers_data, start_mtx, clk, rng>>

\* (float) n for an integer n >= 0: below 2^24 every integer is a float; from
\* there on the floats are the multiples of the unit in the last place, and n
\* goes to the nearest one, to the one with the even significand on a tie
RECURSIVE float_ulp(_)
float_ulp(n) == IF n < 2^24 THEN 1 ELSE 2 * float_ulp(n \div 2)

float(n) ==
    LET u  == float_ulp(n)
        lo == (n \div u) * u
        r  == n - lo
    IN  IF 2 * r < u THEN lo
        ELSE IF 2 * r > u THEN lo + u
        ELSE IF (lo \div u) % 2 = 0 THEN lo ELSE lo + u

\* the duty cycles whose hundredth is a binary fraction: (float) duty_cycle /
\* 100.0 and its product with a float are exact in double
ExactDutyCycles == {0, 25, 50, 75, 100}

\* the integer n, of either sign, stored in a uint32_t: n mod 2^32, as its
\* two halves of 16 bits
uint32_t(n) == [hi |-> (n \div 65536) % 65536, lo |-> n % 65536]

\* worker_periodic:349-350  process = (float) duration * ((float) duty_cycle
\* / 100.0), converted to uint32_t: the exact value for a duty cycle of
\* ExactDutyCycles, the only ones followed (for another duty cycle the double
\* quotient is rounded)
periodic_process(duration, duty_cycle) ==
    (float(duration) * duty_cycle) \div 100

\* worker_periodic:351  sleep = duration - process, in uint32_t
periodic_sleep(duration, process) == uint32_t(duration - process)

\* worker_periodic:349-354  process, sleep = duration - process; usleep(sleep)
PeriodicSleep ==
    \E t \in DOMAIN threads :
        /\ At(t, "p_start")
        /\ LET pr == periodic_process(Slot(t).u1, Slot(t).u2)
               sl == Slot(t).u1 - pr
           IN threads' = [threads EXCEPT
                    ![t].pc = "p_sleep", ![t].process = pr, ![t].sleep = sl,
                    ![t].wake = timespec_add_us(Now, sl)]
        /\ UNCHANGED <<mainv, workers_data, start_mtx, clk, rng>>

\* worker_periodic:359-360  after the sleep: end_ts = now + process
PeriodicProcess ==
    \E t \in DOMAIN threads :
        /\ At(t, "p_sleep")
        /\ timespec_older(Now, threads[t].wake)
        /\ threads' = [threads EXCEPT
                ![t].pc = "spin",
                ![t].m_end_ts = timespec_add_us(Now, threads[t].process)]
        /\ UNCHANGED <<mainv, workers_data, start_mtx, clk, rng>>

\* worker_yield:383-384  end_ts = now + period
YieldStart ==
    \E t \in DOMAIN threads :
        /\ At(t, "y_start")
        /\ threads' = [threads EXCEPT
                ![t].pc = "y_burst",
                ![t].m_end_ts = timespec_add_us(Now, Slot(t).u1)]
        /\ UNCHANGED <<mainv, workers_data, start_mtx, clk, rng>>

\* worker_yield:388-399  the burst ends at the first sample at or after
\* end_ts; the end of the yield window is set: end_ts = now + period
YieldWindow ==
    \E t \in DOMAIN threads :
        /\ At(t, "y_burst")
        /\ timespec_older(Now, threads[t].m_end_ts)
        /\ threads' = [threads EXCEPT
                ![t].pc = "y_first",
                ![t].m_end_ts = timespec_add_us(Now, Slot(t).u1)]
        /\ UNCHANGED <<mainv, workers_data, start_mtx, clk, rng>>

\* worker_yield:402-405  a second clock sample: yield_ts = now + interval
YieldFirst ==
    \E t \in DOMAIN threads :
        /\ At(t, "y_first")
        /\ threads' = [threads EXCEPT
                ![t].pc = "y_loop",
                ![t].yield_ts = timespec_add_us(Now, Slot(t).u2)]
        /\ UNCHANGED <<mainv, workers_data, start_mtx, clk, rng>>

\* worker_yield:412-416  a sample at or after end_ts ends the invocation
YieldEnd ==
    \E t \in DOMAIN threads :
        /\ At(t, "y_loop")
        /\ timespec_older(Now, threads[t].m_end_ts)
        /\ threads' = [threads EXCEPT ![t] = Return(@)]
        /\ UNCHANGED <<mainv, workers_data, start_mtx, clk, rng>>

\* the yield check made without the check of the end of the window before it
YieldYieldFirst ==
    \E t \in DOMAIN threads :
        /\ At(t, "y_loop")
        /\ timespec_older(Now, threads[t].yield_ts)
        /\ threads' = [threads EXCEPT
                ![t].yield_ts = timespec_add_us(@, Slot(t).u2),
                ![t].yields = @ + 1]
        /\ UNCHANGED <<mainv, workers_data, start_mtx, clk, rng>>

\* worker_yield:417-423  else a sample at or after yield_ts moves yield_ts on
\* by one interval and yields the processor
YieldYield ==
    \E t \in DOMAIN threads :
        /\ At(t, "y_loop")
        /\ ~timespec_older(Now, threads[t].m_end_ts)
        /\ timespec_older(Now, threads[t].yield_ts)
        /\ threads' = [threads EXCEPT
                ![t].yield_ts = timespec_add_us(@, Slot(t).u2),
                ![t].yields = @ + 1]
        /\ UNCHANGED <<mainv, workers_data, start_mtx, clk, rng>>

----------------------------------------------------------------------------
(* The clock *)

\* thread t is in its timed loop and a deadline of its own is still ahead
NeedsTime(t) ==
    /\ threads[t].pc \in {"check", "batch", "i_delay", "i_sleep", "spin",
                          "p_start", "p_sleep", "y_start", "y_burst",
                          "y_first", "y_loop"}
    /\ \/ ~timespec_older(Now, threads[t].end_ts)
       \/ ~timespec_older(Now, threads[t].m_end_ts)
       \/ ~timespec_older(Now, threads[t].wake)

\* the monotonic clock advances; it is followed for MaxTime steps, and beyond
\* for as long as a running worker waits for a deadline
Tick ==
    /\ Running
    /\ \/ clk < MaxTime * TickStep
       \/ \E t \in DOMAIN threads : NeedsTime(t)
    /\ clk' = clk + TickStep
    /\ UNCHANGED <<mainv, workers_data, start_mtx, threads, rng>>

----------------------------------------------------------------------------

Next ==
    \/ MainStart \/ MainParse \/ MainAlloc
    \/ LaunchBatch \/ EndBatch
    \/ LaunchInteractive \/ EndInteractive
    \/ LaunchPeriodic \/ EndPeriodic
    \/ LaunchYield \/ EndYield
    \/ MainPoll \/ MainLock \/ MainBroadcast \/ MainStamp \/ MainUnlock
    \/ MainJoin \/ MainReport
    \/ WorkerPid \/ WorkerSeed \/ WorkerWait \/ SpuriousWakeup \/ WorkerResume
    \/ WorkerEnd \/ WorkerCheck
    \/ WorkerBatch
    \/ InteractiveDelay \/ InteractiveProcess \/ SpinEnd
    \/ PeriodicSleep \/ PeriodicProcess
    \/ YieldStart \/ YieldWindow \/ YieldFirst \/ YieldEnd \/ YieldYield
    \/ Tick

Spec == Init /\ [][Next]_vars

\* the steps of a test of no duration: every worker's deadline is the
\* instant it samples, so no model is ever invoked and no step depends on
\* the value of the clock, which is left where it is
NextZeroDuration ==
    \/ MainStart \/ MainParse \/ MainAlloc
    \/ LaunchBatch \/ EndBatch
    \/ LaunchInteractive \/ EndInteractive
    \/ LaunchPeriodic \/ EndPeriodic
    \/ LaunchYield \/ EndYield
    \/ MainPoll \/ MainLock \/ MainBroadcast \/ MainStamp \/ MainUnlock
    \/ MainJoin \/ MainReport
    \/ WorkerPid \/ WorkerSeed \/ WorkerWait \/ SpuriousWakeup \/ WorkerResume
    \/ WorkerEnd \/ WorkerCheck

\* the whole life of the process, from the command line to the report, for
\* the command lines that end with `-d 0`
LaunchSpec == InitZeroDuration /\ [][NextZeroDuration]_vars

\* the command lines of one option that asks for workers: one worker, or two
\* of one kind, which draw from the same generator
OneKindCmdLines == {a \in CmdLines : Len(a) = 1 /\ Asked(a) \in {1, 2}}

\* the runs of the workers of one kind
WorkerInit == InitWith(OneKindCmdLines) /\ Idle

WorkerSpec == WorkerInit /\ [][Next]_vars

\* the command lines with a count and ONE pair of parameters for a kind, after
\* no option or after -b 1, in a test of no duration
PairCmdLines ==
    {pre \o <<Opt(o[1], <<c, Tok(o[2]), Tok(o[3])>>), Opt("d", <<Tok(0)>>)>> :
        pre \in {<<>>, <<Opt("b", <<Tok(1)>>)>>},
        o \in {<<"i", Full, Half>>, <<"p", Full, 100>>, <<"y", Full, Half>>},
        c \in Counts}

\* the runs on a count and one pair
PairInit == InitWith(PairCmdLines) /\ Idle

PairSpec == PairInit /\ [][NextZeroDuration]_vars

\* the command lines that ask for UINT8_MAX Batch workers and one worker of
\* another kind
CountCmdLines ==
    {<<Opt("b", <<Tok(UINT8_MAX)>>), o>> :
        o \in {Opt("i", <<Tok(1), Tok(Half), Tok(Half)>>),
               Opt("p", <<Tok(1), Tok(Full), Tok(100)>>),
               Opt("y", <<Tok(1), Tok(Full), Tok(Half)>>)}}

\* the steps of main when no worker thread gets the processor before main
\* has returned
MainNext ==
    \/ MainStart \/ MainParse \/ MainAlloc
    \/ LaunchBatch \/ EndBatch
    \/ LaunchInteractive \/ EndInteractive
    \/ LaunchPeriodic \/ EndPeriodic
    \/ LaunchYield \/ EndYield
    \/ MainLock \/ MainBroadcast \/ MainStamp \/ MainUnlock \/ MainReport

\* main on more than UINT8_MAX workers
CountInit == InitWith(CountCmdLines) /\ Idle

CountSpec == CountInit /\ [][MainNext]_vars

\* fair scheduling and an advancing clock: every step of main, of a worker
\* and of the clock that stays possible is taken; a wake-up of the condition
\* wait without a broadcast is possible but nothing promises it
FairSpec ==
    /\ Spec
    /\ WF_vars(MainStart) /\ WF_vars(MainParse) /\ WF_vars(MainAlloc)
    /\ WF_vars(LaunchBatch) /\ WF_vars(EndBatch)
    /\ WF_vars(LaunchInteractive) /\ WF_vars(EndInteractive)
    /\ WF_vars(LaunchPeriodic) /\ WF_vars(EndPeriodic)
    /\ WF_vars(LaunchYield) /\ WF_vars(EndYield)
    /\ WF_vars(MainPoll) /\ WF_vars(MainLock) /\ WF_vars(MainBroadcast)
    /\ WF_vars(MainStamp) /\ WF_vars(MainUnlock) /\ WF_vars(MainJoin)
    /\ WF_vars(MainReport)
    /\ WF_vars(WorkerPid) /\ WF_vars(WorkerSeed) /\ WF_vars(WorkerWait)
    /\ WF_vars(WorkerResume) /\ WF_vars(WorkerEnd) /\ WF_vars(WorkerCheck)
    /\ WF_vars(WorkerBatch) /\ WF_vars(InteractiveDelay)
    /\ WF_vars(InteractiveProcess) /\ WF_vars(SpinEnd)
    /\ WF_vars(PeriodicSleep) /\ WF_vars(PeriodicProcess)
    /\ WF_vars(YieldStart) /\ WF_vars(YieldWindow) /\ WF_vars(YieldFirst)
    /\ WF_vars(YieldEnd) /\ WF_vars(YieldYield)
    /\ WF_vars(Tick)

----------------------------------------------------------------------------
(* The time utilities, each called on its own with normalized instants and  *)
(* a duration.  The products ms * MS_TO_NS and us * US_TO_NS are made after  *)
(* the reduction of the argument below one second: they stay below 10^9,     *)
(* inside uint32_t, and the sums below 2 * 10^9, inside a long of any width. *)

\* largest tv_sec of the instants tried
MaxSec == 1
\* the largest duration tried; a uint32_t goes on to 2^32 - 1, beyond the
\* integers that can be computed with here
MaxDuration == 2147483647

\* normalized instants: tv_nsec at both ends of [0, 10^9) and inside it
Instants ==
    [tv_sec : 0..MaxSec, tv_nsec : {0, 1, S_TO_NS \div 2, S_TO_NS - 1}]

\* durations around the multiples of each unit's second
Durations ==
    {k * u + r : k \in {0, 1}, r \in {0, 1}, u \in {S_TO_MS, S_TO_US, S_TO_NS}}
    \cup {k * u - 1 : k \in {1, 2}, u \in {S_TO_MS, S_TO_US, S_TO_NS}}
    \cup {MaxDuration}

TimeInit ==
    /\ InitWith({<<>>})
    /\ args \in [fn : {"time"}, a : Instants, b : Instants, c : Instants,
                  d : Durations]
    /\ ret = NoCall

\* the variables of the process, which does not run
progv == <<argv, stderr, mpc, exitcode, conf, workers_count, workers_size,
           workers_data, workers, i, w, p1, p2, start_ts, end_ts, start_mtx,
           threads, clk, rng>>

\* f is called with the arguments and returns val
Returns(f, val) ==
    /\ ret = NoCall
    /\ ret' = [fn |-> f, val |-> val]
    /\ UNCHANGED <<args, progv>>

CallAddMs == Returns("timespec_add_ms", timespec_add_ms(args.a, args.d))
CallAddUs == Returns("timespec_add_us", timespec_add_us(args.a, args.d))
CallAddNs == Returns("timespec_add_ns", timespec_add_ns(args.a, args.d))
CallSubtract == Returns("timespec_subtract", timespec_subtract(args.a, args.b))

\* t = a; timespec_add_us(&t, d); timespec_subtract(&t, &a)
CallAddSubtract ==
    Returns("add_subtract",
            timespec_subtract(timespec_add_us(args.a, args.d), args.a))

\* timespec_older on every pair of a, b, c the order laws speak of
CallOlder ==
    Returns("timespec_older",
            [aa |-> timespec_older(args.a, args.a),
             ab |-> timespec_older(args.a, args.b),
             ba |-> timespec_older(args.b, args.a),
             bc |-> timespec_older(args.b, args.c),
             ac |-> timespec_older(args.a, args.c)])

TimeNext ==
    \/ CallAddMs \/ CallAddUs \/ CallAddNs \/ CallSubtract
    \/ CallAddSubtract \/ CallOlder

TimeSpec == TimeInit /\ [][TimeNext]_vars

----------------------------------------------------------------------------
(* The times of one invocation of worker_periodic, computed on their own    *)
(* for periods on both sides of 2^24 microseconds.                          *)

\* periods tried: up to MaxPeriod, and up to MaxPeriod away from 2^24
MaxPeriod == 10

Periods == (0..MaxPeriod) \cup ((2^24 - MaxPeriod)..(2^24 + MaxPeriod))

PeriodicInit ==
    /\ InitWith({<<>>})
    /\ args \in [fn : {"worker_periodic"}, duration : Periods,
                  duty_cycle : ExactDutyCycles]
    /\ ret = NoCall

\* worker_periodic:349-351
CallPeriodic ==
    LET pr == periodic_process(args.duration, args.duty_cycle)
    IN  Returns("worker_periodic",
                [process |-> pr, sleep |-> periodic_sleep(args.duration, pr)])

PeriodicSpec == PeriodicInit /\ [][CallPeriodic]_vars

----------------------------------------------------------------------------
(* Properties *)

\* thread t has not reached the wait point of sync_start yet
BeforeWait(t) == threads[t].pc \in {"pid", "seed", "lock"}
\* thread t is inside sync_start or before it
InBarrier(t) == threads[t].pc \in {"pid", "seed", "lock", "wait", "woken"}
\* thread t is inside an invocation of its model, or has ended
InModelOrDone(t) == ~InBarrier(t) /\ threads[t].pc \notin {"end", "check"}
\* main has made the broadcast
Broadcast == mpc \in {"stamp", "unlock", "join", "done"}
\* main has recorded the release instant
Stamped == mpc \in {"unlock", "join", "done"}

\* C1: the release broadcast never happens while a launched worker has not
\* reached the wait point of the barrier: when main is about to broadcast,
\* every worker is at or past the pthread_cond_wait of sync_start.
C1_BroadcastAfterAllWait ==
    mpc = "broadcast" => \A t \in DOMAIN threads : ~BeforeWait(t)

\* C2: a worker leaves sync_start only after main's broadcast has occurred.
C2_ReleasedOnlyAfterBroadcast ==
    \A t \in DOMAIN threads : ~InBarrier(t) => Broadcast

\* C3: under fair scheduling and an advancing clock, once the workers are
\* launched main eventually passes the join of all of them and reports the
\* elapsed time.
C3_EventuallyReported == (mpc = "poll") ~> (mpc = "done")

\* C4: every worker's end_ts is the release instant main recorded in
\* start_ts plus the test duration.
C4_SharedDeadline ==
    Stamped =>
        \A t \in DOMAIN threads :
            threads[t].pc \notin {"pid", "seed", "lock", "wait", "woken", "end"}
                => threads[t].end_ts = worker_end_ts(start_ts, conf.td)

\* C5: the lifecycle is ordered: the barrier lock is held while workers are
\* launched, every worker is launched before the broadcast, the broadcast
\* precedes every worker's first model invocation, and every worker has
\* ended when the elapsed time is reported, which is the last step.
C5_LifecycleOrdered ==
    /\ threads # <<>> => mpc \notin {"start", "parse", "alloc"}
    /\ mpc \in {"batch", "inter", "period", "yield"} => start_mtx = MainTid
    /\ Broadcast \/ mpc = "broadcast" => Len(threads) = workers_count
    /\ \A t \in DOMAIN threads : InModelOrDone(t) => Broadcast
    /\ mpc = "done" =>
          /\ \A t \in DOMAIN threads : threads[t].pc = "done"
          /\ exitcode = ExitOk

\* C6: when a configuration error (duty_cycle > 100, yield_interval >
\* burst_period) ends the process, the exit status is not zero and no worker
\* thread has been created.
C6_NoWorkerBeforeConfigError ==
    mpc \in {"exit_duty", "exit_yield"} =>
        exitcode # ExitOk /\ threads = <<>>

\* C7: a Periodic worker is rejected exactly when duty_cycle > 100 and a Yield
\* worker exactly when yield_interval > burst_period (100 and equality are
\* accepted); the rejected worker is never launched.
C7_ValidationBoundaries ==
    /\ mpc = "exit_duty" => p2 > 100
    /\ mpc = "exit_yield" => p2 > p1
    /\ mpc = "period" /\ i > 0 => p2 <= 100
    /\ mpc = "yield" /\ i > 0 => p2 <= p1
    /\ mpc \in {"exit_duty", "exit_yield"} =>
          /\ workers[w + i + 1] = 0
          /\ \A t \in DOMAIN threads : threads[t].slot # w + i + 1
    /\ \A t \in DOMAIN threads :
          /\ Slot(t).kind = WORKER_PERIODC => Slot(t).u2 <= 100
          /\ Slot(t).kind = WORKER_YIELD => Slot(t).u2 <= Slot(t).u1

\* a Periodic worker with duty_cycle 101 was rejected after another worker
\* had been launched
C7_Witness == mpc = "exit_duty" /\ p2 = 101 /\ threads # <<>>

\* C8: the exit status is 0 only after help or a run whose configuration had
\* no validation failure (nothing was reported as wrong).
C8_ExitZeroOnlyIfValid ==
    exitcode = ExitOk => mpc = "exit_help" \/ stderr = {}

\* C9: a failure of pthread_create ends the process there with a non-zero
\* status: the failure is reported, the workers created are exactly those of
\* the earlier iterations, none of them has passed the barrier, whose lock
\* main still holds (nothing was released), and main got no further (no
\* elapsed time is reported).
C9_CreateFailureIsFatal ==
    "pthread_create failed" \in stderr =>
        /\ mpc = "exit_create"
        /\ exitcode = ExitMinus1
        /\ Len(threads) = w + i
        /\ workers[w + i + 1] = 0
        /\ start_mtx = MainTid
        /\ \A t \in DOMAIN threads : BeforeWait(t)

\* pthread_create failed for the second worker
C9_Witness == mpc = "exit_create" /\ Len(threads) = 1

\* C10: the numbers a worker draws are those of a generator of its own,
\* seeded with its tid: no seeding or draw of another thread changes them.
C10_PrivateSequence ==
    \A t \in DOMAIN threads : threads[t].drawn => threads[t].raw = threads[t].own

\* tv_nsec lies in [0, 10^9)
Normalized(ts) == 0 <= ts.tv_nsec /\ ts.tv_nsec < S_TO_NS

\* a duration of d units, per seconds of them, each of nsper nanoseconds, as
\* seconds and nanoseconds
DurationOf(d, per, nsper) ==
    [tv_sec |-> d \div per, tv_nsec |-> (d % per) * nsper]

\* the value of r is the value of t plus the value of dur
IsSum(r, t, dur) ==
    LET k == r.tv_sec - t.tv_sec - dur.tv_sec
    IN  /\ k \in {0, 1}
        /\ k * S_TO_NS = t.tv_nsec + dur.tv_nsec - r.tv_nsec

\* C11: for a normalized instant and a duration, timespec_add_ms,
\* timespec_add_us and timespec_add_ns return a normalized instant whose
\* value is the instant plus the duration, and timespec_subtract of two
\* normalized instants returns tv_nsec in [0, 10^9).
C11_Normalization ==
    /\ ret.fn = "timespec_add_ms" =>
          /\ Normalized(ret.val)
          /\ IsSum(ret.val, args.a, DurationOf(args.d, S_TO_MS, MS_TO_NS))
    /\ ret.fn = "timespec_add_us" =>
          /\ Normalized(ret.val)
          /\ IsSum(ret.val, args.a, DurationOf(args.d, S_TO_US, US_TO_NS))
    /\ ret.fn = "timespec_add_ns" =>
          /\ Normalized(ret.val)
          /\ IsSum(ret.val, args.a, DurationOf(args.d, S_TO_NS, 1))
    /\ ret.fn = "timespec_subtract" => Normalized(ret.val)

\* a subtraction that borrowed: b has the larger tv_nsec
C11_Witness ==
    /\ ret.fn = "timespec_subtract"
    /\ args.a.tv_nsec < args.b.tv_nsec
    /\ ret.val.tv_sec = args.a.tv_sec - args.b.tv_sec - 1

\* C12: adding d microseconds to a normalized instant t and subtracting t
\* from the result gives d back, as normalized seconds and nanoseconds.
C12_RoundTrip ==
    ret.fn = "add_subtract" =>
        ret.val = DurationOf(args.d, S_TO_US, US_TO_NS)

\* a round trip of more than a second in which the addition carried and the
\* subtraction borrowed
C12_Witness ==
    /\ ret.fn = "add_subtract"
    /\ args.d > S_TO_US
    /\ args.a.tv_nsec + (args.d % S_TO_US) * US_TO_NS >= S_TO_NS
    /\ ret.val.tv_nsec > 0

\* (sec, nsec) of a is at or after that of b in lexicographic order
LexGE(a, b) ==
    \/ a.tv_sec > b.tv_sec
    \/ a.tv_sec = b.tv_sec /\ a.tv_nsec >= b.tv_nsec

C14_PeriodicSplit ==
    ret.fn = "worker_periodic" =>
        LET P == args.duration
            D == args.duty_cycle
        IN  /\ ret.val.process = (P * D) \div 100
            /\ 0 <= ret.val.process /\ ret.val.process <= P
            /\ ret.val.sleep = uint32_t(P - (P * D) \div 100)
            /\ D = 0 => ret.val.process = 0
            /\ D = 100 => ret.val.sleep = uint32_t(0)

\* the states of a thread inside an invocation of its model
ModelStates == {"batch", "i_delay", "i_sleep", "spin", "p_start", "p_sleep",
                "y_start", "y_burst", "y_first", "y_loop"}

\* C15: in every invocation of the Interactive model the delay slept lies in
\* [0, interval_max] and the processing time in [0, duration_max]: the sleep
\* asked for is never longer than interval_max and the processing deadline
\* never later than the instant sampled after the sleep plus duration_max
\* (the clock only advances, so never later than now plus duration_max).
C15_InteractiveBounds ==
    \A t \in DOMAIN threads :
        Slot(t).kind = WORKER_INTERACTIVE =>
            /\ threads[t].pc \in {"i_sleep", "spin"} =>
                  0 <= threads[t].delay /\ threads[t].delay <= Slot(t).u1
            /\ threads[t].pc = "i_sleep" =>
                  timespec_older(timespec_add_us(Now, Slot(t).u1), threads[t].wake)
            /\ threads[t].pc = "spin" =>
                  /\ 0 <= threads[t].process /\ threads[t].process <= Slot(t).u2
                  /\ timespec_older(timespec_add_us(Now, Slot(t).u2),
                                    threads[t].m_end_ts)

\* an invocation that drew the largest number for its processing time, just
\* after the sample that follows the sleep
C15_Witness ==
    \E t \in DOMAIN threads :
        /\ Slot(t).kind = WORKER_INTERACTIVE
        /\ threads[t].pc = "spin"
        /\ threads[t].process = Slot(t).u2 /\ threads[t].process > 0
        /\ threads[t].m_end_ts = timespec_add_us(Now, Slot(t).u2)

\* C18: a worker checks the end of the test only between two invocations of
\* its model: it ends at a check whose sample is at or after end_ts, a model
\* is invoked only at a check whose sample is before end_ts, and an
\* invocation leaves its poll-spin loop only on that loop's own deadline, so
\* the one invocation in progress when end_ts passes is the last.
C18_DeadlineAtLoopTop ==
    [][\A t \in DOMAIN threads :
          LET pc  == threads[t].pc
              pc2 == threads'[t].pc
          IN  /\ pc # "done" /\ pc2 = "done" =>
                    pc = "check" /\ timespec_older(Now, threads[t].end_ts)
              /\ pc = "check" /\ timespec_older(Now, threads[t].end_ts) =>
                    pc2 \in {"check", "done"}
              /\ pc \notin ModelStates /\ pc2 \in ModelStates =>
                    pc = "check" /\ ~timespec_older(Now, threads[t].end_ts)
              /\ pc \in ModelStates => pc2 \in ModelStates \cup {"check"}
              /\ pc = "spin" /\ pc2 # "spin" =>
                    timespec_older(Now, threads[t].m_end_ts)
      ]_vars

\* the end of the test has passed while an invocation waits for a deadline
\* of its own that is still ahead
C18_Witness ==
    \E t \in DOMAIN threads :
        /\ threads[t].pc = "spin"
        /\ timespec_older(Now, threads[t].end_ts)
        /\ ~timespec_older(Now, threads[t].m_end_ts)

\* C19: in one invocation of the Yield model with yield_interval > 0 the end
\* of the window is checked before the yield: every yield is made at a sample
\* before the end of the window, the number k of yields satisfies
\* k * yield_interval < burst_period, and yield_interval = burst_period makes
\* no yield at all.
C19_YieldsInsideWindow ==
    /\ [](\A t \in DOMAIN threads :
             Slot(t).kind = WORKER_YIELD /\ Slot(t).u2 > 0 =>
                 /\ threads[t].yields > 0 =>
                       threads[t].yields * Slot(t).u2 < Slot(t).u1
                 /\ Slot(t).u2 = Slot(t).u1 => threads[t].yields = 0)
    /\ [][\A t \in DOMAIN threads :
             threads'[t].yields > threads[t].yields =>
                 ~timespec_older(Now, threads[t].m_end_ts)
         ]_vars

\* a yield was made in a window two intervals long
C19_Witness ==
    \E t \in DOMAIN threads :
        /\ Slot(t).kind = WORKER_YIELD
        /\ threads[t].pc = "y_loop"
        /\ threads[t].yields = 1
        /\ Slot(t).u1 = 2 * Slot(t).u2

\* main has left the launch loops
Launched == mpc \in {"poll", "broadcast", "stamp", "unlock", "join", "done"}

\* C16: a count N followed by one pair of parameters gives N workers of the
\* kind, each with that pair, for every N >= 1 (-i N,I,D; -p N,P,D; -y N,P,I).
C16_OnePairForAllWorkers ==
    /\ mpc # "exit_segv"
    /\ Launched =>
          /\ Len(threads) = conf.bw + conf.iw + conf.pw + conf.yw
          /\ \A t \in DOMAIN threads :
                Slot(t).kind # WORKER_BATCH =>
                    /\ Slot(t).u1 = Full
                    /\ Slot(t).u2 = IF Slot(t).kind = WORKER_PERIODC
                                    THEN 100 ELSE Half

\* C17: main launches one thread per worker asked for, each on a slot of its
\* own, and the loops that wait for readiness and that join run over as many
\* workers as were launched, also for more than 255 workers.
C17_EveryWorkerJoined ==
    Launched =>
        /\ Len(threads) = conf.bw + conf.iw + conf.pw + conf.yw
        /\ \A t1, t2 \in DOMAIN threads :
              t1 # t2 => threads[t1].slot # threads[t2].slot
        /\ w = Len(threads)

\* C20: the release instant recorded in start_ts is not later than the
\* instant at which a worker starts its timed loop: the end of every worker
\* is not before start_ts plus the test duration, and when a worker was
\* launched the elapsed time reported is at least the test duration.
C20_ReleaseBeforeTimedLoop ==
    /\ Stamped =>
          \A t \in DOMAIN threads :
              threads[t].pc \notin {"pid", "seed", "lock", "wait", "woken", "end"}
                  => timespec_older(threads[t].end_ts,
                                    worker_end_ts(start_ts, conf.td))
    /\ mpc = "done" /\ threads # <<>> => end_ts.tv_sec >= conf.td

\* C21: the bytes allocated for `workers` are at least workers_count *
\* sizeof(pthread_t): every handle stored by the launch loops and read by the
\* join loop lies inside the allocation.
C21_HandlesFitAllocation ==
    /\ workers_size >= workers_count * SizeofPthreadT
    /\ \A k \in DOMAIN workers : workers[k] # 0 => InAllocation(k - 1)
    /\ mpc # "exit_overflow"

====
